---- MODULE Spec2Model ----
(***************************************************************************)
(* convert_aspect.py: batch conversion of screenshots to the allow-listed  *)
(* sizes.  The model follows process_images() statement by statement; the  *)
(* arithmetic of the script (true division `/`, abs, min with a key, and   *)
(* the size computation of Image.thumbnail) is computed in IEEE-754        *)
(* binary64, the arithmetic of Python's float, on explicit bit strings.    *)
(***************************************************************************)
EXTENDS Integers, Sequences, FiniteSets, TLC

(***************************************************************************)
(* Python float: binary64, 53 significant bits, round to nearest, ties to  *)
(* even.  A non-negative float is [m, e]: m the 53 significand bits (most  *)
(* significant first, m[1] = 1) and e the exponent of the last bit, so the *)
(* value is m * 2^e; zero is the empty significand.  Natural numbers of    *)
(* any size are bit strings without leading zeros.                         *)
(***************************************************************************)
MantBits == 53

Zeros(n) == [i \in 1..n |-> 0]

RECURSIVE BitsOf(_)
BitsOf(n) == IF n = 0 THEN <<>> ELSE Append(BitsOf(n \div 2), n % 2)

RECURSIVE IntOf(_)
IntOf(b) == IF b = <<>> THEN 0 ELSE 2 * IntOf(SubSeq(b, 1, Len(b) - 1)) + b[Len(b)]

RECURSIVE Pow2(_)
Pow2(n) == IF n = 0 THEN 1 ELSE 2 * Pow2(n - 1)

\* the n-bit string of x < 2^n
PadBits(x, n) == LET b == BitsOf(x) IN Zeros(n - Len(b)) \o b

Front(b, c) == SubSeq(b, 1, Len(b) - c)
Last(b, c) == SubSeq(b, Len(b) - c + 1, Len(b))
MinOf(a, b) == IF a < b THEN a ELSE b

\* b without its leading zeros
RECURSIVE Norm(_)
Norm(b) ==
    IF Len(b) >= 16 /\ SubSeq(b, 1, 16) = Zeros(16) THEN Norm(SubSeq(b, 17, Len(b)))
    ELSE IF b = <<>> \/ b[1] = 1 THEN b
    ELSE Norm(Tail(b))

\* -1, 0, 1 as a < b, a = b, a > b from position i on, for strings of one length
RECURSIVE LexCmp(_, _, _)
LexCmp(a, b, i) ==
    IF i > Len(a) THEN 0
    ELSE LET c  == MinOf(24, Len(a) - i + 1)
             xa == IntOf(SubSeq(a, i, i + c - 1))
             xb == IntOf(SubSeq(b, i, i + c - 1))
         IN IF xa # xb THEN (IF xa < xb THEN -1 ELSE 1)
            ELSE LexCmp(a, b, i + c)

\* -1, 0, 1 as a < b, a = b, a > b, for bit strings without leading zeros
CmpBits(a, b) ==
    IF Len(a) # Len(b) THEN (IF Len(a) < Len(b) THEN -1 ELSE 1)
    ELSE LexCmp(a, b, 1)

\* a - b - borrow on strings of one length, 24 bits at a time from the right
RECURSIVE SubLoop(_, _, _)
SubLoop(a, b, borrow) ==
    IF a = <<>> THEN <<>>
    ELSE LET c == MinOf(24, Len(a))
             d == IntOf(Last(a, c)) - IntOf(Last(b, c)) - borrow
         IN IF d < 0
            THEN SubLoop(Front(a, c), Front(b, c), 1) \o PadBits(d + Pow2(c), c)
            ELSE SubLoop(Front(a, c), Front(b, c), 0) \o PadBits(d, c)

\* a - b for a >= b
SubBits(a, b) == Norm(SubLoop(a, Zeros(Len(a) - Len(b)) \o b, 0))

\* a * k + carry, 15 bits at a time from the right, for k < 2^15
RECURSIVE MulLoop(_, _, _)
MulLoop(a, k, carry) ==
    IF a = <<>> THEN BitsOf(carry)
    ELSE LET c == MinOf(15, Len(a))
             t == IntOf(Last(a, c)) * k + carry
         IN MulLoop(Front(a, c), k, t \div Pow2(c)) \o PadBits(t % Pow2(c), c)

MulBits(a, k) == Norm(MulLoop(a, k, 0))

RECURSIVE Incr(_)
Incr(b) ==
    IF b = <<>> THEN <<1>>
    ELSE IF b[Len(b)] = 0 THEN [b EXCEPT ![Len(b)] = 1]
    ELSE Append(Incr(SubSeq(b, 1, Len(b) - 1)), 0)

FZero == [m |-> <<>>, e |-> 0]

\* the float nearest to N * 2^e (+ something in (0, 2^e) when sticky)
Round(N, e, sticky) ==
    LET n == Len(N) IN
    IF n = 0 THEN FZero
    ELSE IF n <= MantBits
    THEN [m |-> N \o Zeros(MantBits - n), e |-> e - (MantBits - n)]
    ELSE LET top == SubSeq(N, 1, MantBits)
             st  == sticky \/ \E i \in (MantBits + 2)..n : N[i] = 1
             up  == N[MantBits + 1] = 1 /\ (st \/ top[MantBits] = 1)
             e2  == e + (n - MantBits)
             inc == Incr(top)
         IN IF ~up THEN [m |-> top, e |-> e2]
            ELSE IF Len(inc) > MantBits
            THEN [m |-> SubSeq(inc, 1, MantBits), e |-> e2 + 1]
            ELSE [m |-> inc, e |-> e2]

\* n further 16-bit digits of the quotient r / b (r < b < 2^15), with the rest
RECURSIVE FracDigits(_, _, _)
FracDigits(r, b, n) ==
    IF n = 0 THEN [q |-> <<>>, r |-> r]
    ELSE LET t    == r * 65536
             rest == FracDigits(t % b, b, n - 1)
         IN [q |-> PadBits(t \div b, 16) \o rest.q, r |-> rest.r]

\* a / b of two ints, b < 2^15 (Python 3 true division, correctly rounded):
\* the quotient has its first 1 among the first 15 bits after the point, so
\* 80 bits after the point hold more than 53 significant ones
TrueDiv(a, b) ==
    IF a = 0 THEN FZero
    ELSE LET d == FracDigits(a % b, b, 5)
         IN Round(Norm(BitsOf(a \div b) \o d.q), 0 - 80, d.r # 0)

\* a 53- or 54-bit natural as three digits of 18 bits, most significant first
Limbs(b) ==
    LET p == Zeros(54 - Len(b)) \o b
    IN <<IntOf(SubSeq(p, 1, 18)), IntOf(SubSeq(p, 19, 36)), IntOf(SubSeq(p, 37, 54))>>

\* one step of binary long division: the next quotient bit of R / D, and the rest
DivStep(R, D) ==
    LET l  == 2 * R[3]
        m  == 2 * R[2] + l \div 262144
        h  == 2 * R[1] + m \div 262144
        T  == <<h, m % 262144, l % 262144>>
        ge == T[1] > D[1] \/ (T[1] = D[1] /\
                (T[2] > D[2] \/ (T[2] = D[2] /\ T[3] >= D[3])))
        l2 == T[3] - D[3]
        m2 == T[2] - D[2] - (IF l2 < 0 THEN 1 ELSE 0)
        h2 == T[1] - D[1] - (IF m2 < 0 THEN 1 ELSE 0)
    IN IF ge THEN [bit |-> 1, R |-> <<h2, IF m2 < 0 THEN m2 + 262144 ELSE m2,
                                      IF l2 < 0 THEN l2 + 262144 ELSE l2>>]
       ELSE [bit |-> 0, R |-> T]

RECURSIVE DivSteps(_, _, _)
DivSteps(R, D, n) ==
    IF n = 0 THEN [q |-> <<>>, r |-> R]
    ELSE LET s    == DivStep(R, D)
             rest == DivSteps(s.R, D, n - 1)
         IN [q |-> <<s.bit>> \o rest.q, r |-> rest.r]

\* x / f for an int x >= 1 and a float f > 0.  With x scaled to 52 bits the
\* dividend is below the 53-bit f.m; 57 more bits of the quotient x / f.m
\* hold 56 or 57 significant ones.
IntDivFloat(x, f) ==
    LET lx == Len(BitsOf(x))
        D  == Limbs(f.m)
        d1 == DivSteps(Limbs(BitsOf(x) \o Zeros(MantBits - 1 - lx)), D, 19)
        d2 == DivSteps(d1.r, D, 19)
        d3 == DivSteps(d2.r, D, 19)
    IN Round(Norm(d1.q \o d2.q \o d3.q), 0 - (2 * MantBits + 3 - lx) - f.e,
             d3.r # <<0, 0, 0>>)

\* k * f for an int k >= 0 and a float f
IntMulFloat(k, f) ==
    IF k = 0 \/ f.m = <<>> THEN FZero
    ELSE Round(MulBits(f.m, k), f.e, FALSE)

\* x < y
FLess(x, y) ==
    IF y.m = <<>> THEN FALSE
    ELSE IF x.m = <<>> THEN TRUE
    ELSE IF x.e # y.e THEN x.e < y.e
    ELSE LexCmp(x.m, y.m, 1) < 0

\* abs(x - y)
FAbsDiff(x, y) ==
    IF x.m = <<>> THEN y
    ELSE IF y.m = <<>> THEN x
    ELSE LET e0 == IF x.e < y.e THEN x.e ELSE y.e
             a  == x.m \o Zeros(x.e - e0)
             b  == y.m \o Zeros(y.e - e0)
         IN IF CmpBits(a, b) >= 0 THEN Round(SubBits(a, b), e0, FALSE)
            ELSE Round(SubBits(b, a), e0, FALSE)

\* math.floor and math.ceil of a float below 2^31
FFloor(f) ==
    IF f.m = <<>> \/ MantBits + f.e <= 0 THEN 0
    ELSE IntOf(SubSeq(f.m, 1, MantBits + f.e))

FIsInt(f) ==
    f.m = <<>> \/ \A i \in (MantBits + f.e + 1)..MantBits : i < 1 \/ f.m[i] = 0

FCeil(f) == IF FIsInt(f) THEN FFloor(f) ELSE FFloor(f) + 1

(***************************************************************************)
(* Configuration of the script.                                            *)
(***************************************************************************)
VALID_SIZES ==
    << <<1320, 2868>>, <<2868, 1320>>,
       <<1290, 2796>>, <<2796, 1290>>,
       <<2064, 2752>>, <<2752, 2064>>,
       <<2048, 2732>>, <<2732, 2048>> >>

\* `(w, h) in VALID_SIZES`
InValidSizes(sz) == \E i \in 1..Len(VALID_SIZES) : VALID_SIZES[i] = sz

\* mutant: the suffix is compared as it is spelled
LowerForgotten(sfx) == sfx

\* `file.suffix.lower()`, on the suffixes of the directories below
Lower(sfx) ==
    CASE sfx = ".PNG"  -> ".png"
      [] sfx = ".JPG"  -> ".jpg"
      [] sfx = ".Jpeg" -> ".jpeg"
      [] OTHER         -> sfx

\* `file.suffix.lower() in [".png", ".jpg", ".jpeg"]`; a name is <<stem, suffix>>
Supported(name) == Lower(name[2]) \in {".png", ".jpg", ".jpeg"}

(***************************************************************************)
(* Target selection: min(VALID_SIZES, key=lambda s: abs((w/h)-(s[0]/s[1]))) *)
(***************************************************************************)
AspectKey(w, h, s) == FAbsDiff(TrueDiv(w, h), TrueDiv(s[1], s[2]))

\* min(seq, key=...): the index of the first element whose key is least
RECURSIVE MinScan(_, _, _)
MinScan(keys, i, best) ==
    IF i > Len(keys) THEN best
    ELSE IF FLess(keys[i], keys[best]) THEN MinScan(keys, i + 1, i)
    ELSE MinScan(keys, i + 1, best)

\* mutant: max in place of min
FarthestTarget(w, h) ==
    LET keys == [i \in 1..Len(VALID_SIZES) |-> AspectKey(w, h, VALID_SIZES[i])]
    IN VALID_SIZES[CHOOSE b \in 1..Len(VALID_SIZES) :
                       \A i \in 1..Len(VALID_SIZES) : ~FLess(keys[b], keys[i])]

NearestTarget(w, h) ==
    LET keys == [i \in 1..Len(VALID_SIZES) |-> AspectKey(w, h, VALID_SIZES[i])]
    IN VALID_SIZES[MinScan(keys, 2, 1)]

(***************************************************************************)
(* img.thumbnail(target_size, Image.LANCZOS): the size Pillow resizes to.  *)
(***************************************************************************)
MaxOf(a, b) == IF a > b THEN a ELSE b

\* max(min(math.floor(number), math.ceil(number), key=key), 1), the key
\* given as its values on the two candidates
round_aspect(number, key) ==
    LET lo == FFloor(number)
        hi == FCeil(number)
    IN MaxOf(IF FLess(key[hi], key[lo]) THEN hi ELSE lo, 1)

\* the arguments of key that round_aspect(number, key) evaluates it on
Candidates(number) == {FFloor(number), FCeil(number)}

\* mutant: a resize to fit, which also enlarges
resize_to_fit(size, target_size) ==
    LET x == target_size[1]
        y == target_size[2]
        aspect == TrueDiv(size[1], size[2])
    IN IF ~FLess(TrueDiv(x, y), aspect)
       THEN <<MaxOf(FFloor(IntMulFloat(y, aspect)), 1), y>>
       ELSE <<x, MaxOf(FFloor(IntDivFloat(x, aspect)), 1)>>

thumbnail(size, target_size) ==
    LET w == size[1]
        h == size[2]
        x == target_size[1]
        y == target_size[2]
        aspect == TrueDiv(w, h)
        wide   == IntMulFloat(y, aspect)
        high   == IntDivFloat(x, aspect)
    IN IF x >= w /\ y >= h THEN size
       ELSE IF ~FLess(TrueDiv(x, y), aspect)
       THEN <<round_aspect(wide, [n \in Candidates(wide) |->
                                     FAbsDiff(aspect, TrueDiv(n, y))]), y>>
       ELSE <<x, round_aspect(high, [n \in Candidates(high) |->
                                        IF n = 0 THEN FZero
                                        ELSE FAbsDiff(aspect, TrueDiv(x, n))])>>

(***************************************************************************)
(* fit_with_padding(img, target_size): a new RGB canvas of target_size     *)
(* with the shrunk image pasted at (paste_x, paste_y).                     *)
(***************************************************************************)
\* mutant: the free space is not halved
paste_offset_unhalved(target_size, size) ==
    <<target_size[1] - size[1], target_size[2] - size[2]>>

paste_offset(target_size, size) ==
    <<(target_size[1] - size[1]) \div 2, (target_size[2] - size[2]) \div 2>>

\* mutant: the shrunk image is returned without a canvas
fit_without_canvas(im, target_size) ==
    LET shrunk == thumbnail(im.size, target_size)
    IN [size   |-> shrunk,
        mode   |-> "RGB",
        inner  |-> shrunk,
        paste  |-> <<0, 0>>,
        pixels |-> <<"canvas", shrunk, <<0, 0>>, im.pixels>>]

\* mutant: the canvas is created in the mode of the image
fit_keeping_mode(im, target_size) ==
    LET shrunk == thumbnail(im.size, target_size)
        at     == <<(target_size[1] - shrunk[1]) \div 2, (target_size[2] - shrunk[2]) \div 2>>
    IN [size   |-> target_size,
        mode   |-> im.mode,
        inner  |-> shrunk,
        paste  |-> at,
        pixels |-> <<"canvas", shrunk, at, im.pixels>>]

fit_with_padding(img, target_size) ==
    LET shrunk == thumbnail(img.size, target_size)
        at     == paste_offset(target_size, shrunk)
    IN [size   |-> target_size,
        mode   |-> "RGB",
        inner  |-> shrunk,
        paste  |-> at,
        pixels |-> <<"canvas", shrunk, at, img.pixels>>]

(***************************************************************************)
(* Pillow's file handling, as far as the script depends on it.             *)
(***************************************************************************)
\* ImageOps.exif_transpose: orientations 5..8 transpose the pixel grid
exif_transpose(raw) ==
    [size   |-> IF raw.orient \in 5..8 THEN <<raw.size[2], raw.size[1]>> ELSE raw.size,
     mode   |-> raw.mode,
     pixels |-> <<"pixels", raw.name, raw.orient>>]

\* Image.open raises on a file that is not a decodable image
Decodable(entry) == entry.kind = "image"

\* Image.save picks the encoder from the lower-cased extension
Format(name) == IF Lower(name[2]) = ".png" THEN "PNG" ELSE "JPEG"

\* the JPEG encoder refuses the modes with alpha or palette
Encodable(im, name) == Format(name) = "PNG" \/ im.mode \in {"RGB", "L"}

\* the file that im.save(OUTPUT_DIR / name) writes: PNG keeps the pixels,
\* JPEG stores a lossy encoding of them
Saved(im, name) ==
    [size   |-> im.size,
     mode   |-> im.mode,
     pixels |-> IF Format(name) = "PNG" THEN im.pixels ELSE <<"jpeg", im.pixels>>,
     inner  |-> IF "inner" \in DOMAIN im THEN im.inner ELSE im.size,
     paste  |-> IF "paste" \in DOMAIN im THEN im.paste ELSE <<0, 0>>,
     padded |-> "inner" \in DOMAIN im]

(***************************************************************************)
(* The input directories the model runs on: one image of every size of a   *)
(* grid, one image of every mode, extension and orientation on a few       *)
(* sizes, and every listing of up to MaxFiles entries of a mixed pool.     *)
(***************************************************************************)
MaxSmall == 25
MaxFiles == 3

LargeDims == {51, 100, 597, 1290, 1320, 1321, 2000, 2048, 2064, 2732, 2752,
              2796, 2868, 2869, 3000, 4000, 4080, 5592}
Dims == (1..MaxSmall) \cup LargeDims

Modes == {"RGB", "RGBA", "P", "L"}

File(stem, sfx, kind, sz, orient, mode) ==
    [name |-> <<stem, sfx>>, kind |-> kind, size |-> sz, orient |-> orient, mode |-> mode]

GridFiles == {File("shot", ".png", "image", <<w, h>>, 1, "RGB") : w \in Dims, h \in Dims}

SampleSizes == {<<1320, 2868>>, <<2868, 1320>>, <<2732, 2048>>, <<4000, 2000>>,
                <<25, 24>>, <<2000, 4000>>}

ModeFiles ==
    {File("shot", sfx, "image", sz, o, m) :
        sfx \in {".png", ".jpg", ".Jpeg"}, sz \in SampleSizes, o \in {1, 6}, m \in Modes}

MixedPool ==
    { File("notes", ".txt", "other", <<1, 1>>, 1, "RGB"),
      File("README", "", "other", <<1, 1>>, 1, "RGB"),
      File("icon", ".gif", "image", <<1320, 2868>>, 1, "P"),
      File("broken", ".png", "other", <<1, 1>>, 1, "RGB"),
      File("a", ".PNG", "image", <<1320, 2868>>, 1, "RGBA"),
      File("b", ".jpg", "image", <<4000, 2000>>, 1, "RGB"),
      File("c", ".jpeg", "image", <<2868, 1320>>, 6, "RGB"),
      File("d", ".JPG", "image", <<2048, 2732>>, 1, "P"),
      File("e", ".png", "image", <<25, 24>>, 1, "L") }

RECURSIVE Listings(_)
Listings(n) ==
    IF n = 0 THEN {<<>>}
    ELSE LET shorter == Listings(n - 1)
         IN shorter \cup
            {Append(l, f) : l \in {k \in shorter : Len(k) = n - 1},
                            f \in MixedPool} 

Distinct(l) == \A i, j \in 1..Len(l) : i # j => l[i].name # l[j].name

Directories ==
    {<<f>> : f \in GridFiles \cup ModeFiles}
        \cup {l \in Listings(MaxFiles) : Distinct(l)}

(***************************************************************************)
(* The run of the script.                                                  *)
(***************************************************************************)
VARIABLES
    pc,       \* "import", "loop", "opened", "fit", "done" or "crashed"
    dir,      \* INPUT_DIR.iterdir(): the entries in listing order
    idx,      \* entries the for loop has finished
    opened,   \* positions of dir that Image.open was called on
    img,      \* the orientation-normalized image of the current entry
    target,   \* target_size of the current entry
    outdir,   \* whether OUTPUT_DIR exists
    out,      \* files written to OUTPUT_DIR, by name
    log       \* lines printed

vars == <<pc, dir, idx, opened, img, target, outdir, out, log>>

NoImage == [size |-> <<0, 0>>, mode |-> "", pixels |-> <<>>]
NoTarget == <<0, 0>>

Init ==
    /\ pc = "import"
    /\ dir \in Directories
    /\ idx = 0
    /\ opened = {}
    /\ img = NoImage
    /\ target = NoTarget
    /\ outdir = FALSE
    /\ out = <<>>
    /\ log = <<>>

Current == dir[idx + 1]

\* line 17: OUTPUT_DIR.mkdir(parents=True, exist_ok=True)
MakeOutputDir ==
    /\ pc = "import"
    /\ pc' = "loop"
    /\ outdir' = TRUE
    /\ UNCHANGED <<dir, idx, opened, img, target, out, log>>

\* line 17 raising (the path is taken by a file, no permission)
MakeOutputDirFails ==
    /\ pc = "import"
    /\ pc' = "crashed"
    /\ UNCHANGED <<dir, idx, opened, img, target, outdir, out, log>>

\* lines 29-31: an entry whose extension is not supported
SkipEntry ==
    /\ pc = "loop"
    /\ idx < Len(dir)
    /\ ~Supported(Current.name)
    /\ idx' = idx + 1
    /\ UNCHANGED <<pc, dir, opened, img, target, outdir, out, log>>

\* lines 33-35: open, normalize the orientation, read the size
OpenImage ==
    /\ pc = "loop"
    /\ idx < Len(dir)
    /\ Supported(Current.name)
    /\ Decodable(Current)
    /\ opened' = opened \cup {idx + 1}
    /\ img' = exif_transpose(Current)
    /\ pc' = "opened"
    /\ UNCHANGED <<dir, idx, target, outdir, out, log>>

\* mutant: the error is caught and the loop goes on
OpenFailsAndContinues ==
    /\ pc = "loop"
    /\ idx < Len(dir)
    /\ Supported(Current.name)
    /\ ~Decodable(Current)
    /\ opened' = opened \cup {idx + 1}
    /\ idx' = idx + 1
    /\ UNCHANGED <<pc, dir, img, target, outdir, out, log>>

\* line 33 raising: Image.open on a file that is no image
OpenFails ==
    /\ pc = "loop"
    /\ idx < Len(dir)
    /\ Supported(Current.name)
    /\ ~Decodable(Current)
    /\ opened' = opened \cup {idx + 1}
    /\ pc' = "crashed"
    /\ UNCHANGED <<dir, idx, img, target, outdir, out, log>>

\* lines 38-41: the size is allow-listed; print and save the image as it is
CopyAsIs ==
    /\ pc = "opened"
    /\ InValidSizes(img.size)
    /\ Encodable(img, Current.name)
    /\ log' = Append(log, <<"already", Current.name, img.size>>)
    /\ out' = (Current.name :> Saved(img, Current.name)) @@ out
    /\ idx' = idx + 1
    /\ img' = NoImage
    /\ pc' = "loop"
    /\ UNCHANGED <<dir, opened, target, outdir>>

\* line 40 raising: the encoder refuses the mode, or the write fails
CopyFails ==
    /\ pc = "opened"
    /\ InValidSizes(img.size)
    /\ log' = Append(log, <<"already", Current.name, img.size>>)
    /\ pc' = "crashed"
    /\ UNCHANGED <<dir, idx, opened, img, target, outdir, out>>

\* lines 44-49: choose the target and print the conversion
SelectTarget ==
    /\ pc = "opened"
    /\ ~InValidSizes(img.size)
    /\ target' = NearestTarget(img.size[1], img.size[2])
    /\ log' = Append(log, <<"convert", Current.name, img.size, target'>>)
    /\ pc' = "fit"
    /\ UNCHANGED <<dir, idx, opened, img, outdir, out>>

\* lines 52-53: fit onto the canvas and save it
FitAndSave ==
    /\ pc = "fit"
    /\ out' = (Current.name :> Saved(fit_with_padding(img, target), Current.name)) @@ out
    /\ idx' = idx + 1
    /\ img' = NoImage
    /\ target' = NoTarget
    /\ pc' = "loop"
    /\ UNCHANGED <<dir, opened, outdir, log>>

\* line 53 raising: the write fails
FitSaveFails ==
    /\ pc = "fit"
    /\ pc' = "crashed"
    /\ UNCHANGED <<dir, idx, opened, img, target, outdir, out, log>>

\* mutant: the completion line is printed inside the loop, which it ends
FinishInsideLoop ==
    /\ pc = "loop"
    /\ idx >= MinOf(1, Len(dir))
    /\ log' = Append(log, <<"done">>)
    /\ pc' = "done"
    /\ UNCHANGED <<dir, idx, opened, img, target, outdir, out>>

\* line 55: the loop is over; print the completion line
Finish ==
    /\ pc = "loop"
    /\ idx = Len(dir)
    /\ log' = Append(log, <<"done">>)
    /\ pc' = "done"
    /\ UNCHANGED <<dir, idx, opened, img, target, outdir, out>>

Next ==
    \/ MakeOutputDir
    \/ MakeOutputDirFails
    \/ SkipEntry
    \/ OpenImage
    \/ OpenFails
    \/ CopyAsIs
    \/ CopyFails
    \/ SelectTarget
    \/ FitAndSave
    \/ FitSaveFails
    \/ Finish

Spec == Init /\ [][Next]_vars

(***************************************************************************)
(* fit_with_padding as a function of its arguments: every grid image       *)
(* against every allow-listed target, not only the nearest one.            *)
(***************************************************************************)
InitFit ==
    /\ pc = "fit"
    /\ dir \in {<<f>> : f \in GridFiles}
    /\ idx = 0
    /\ opened = {1}
    /\ img = exif_transpose(dir[1])
    /\ target \in {VALID_SIZES[i] : i \in 1..Len(VALID_SIZES)}
    /\ outdir = TRUE
    /\ out = <<>>
    /\ log = <<>>

NextFit == FitAndSave \/ FitSaveFails

SpecFit == InitFit /\ [][NextFit]_vars

(***************************************************************************)
(* Vocabulary of the properties below.                                     *)
(***************************************************************************)
AllowList ==
    { <<1320, 2868>>, <<2868, 1320>>, <<1290, 2796>>, <<2796, 1290>>,
      <<2064, 2752>>, <<2752, 2064>>, <<2048, 2732>>, <<2732, 2048>> }

\* the extensions .png, .jpg and .jpeg in any case, as they occur in the directories
ImageSuffixes == {".png", ".PNG", ".jpg", ".JPG", ".jpeg", ".Jpeg"}

Written == DOMAIN out

\* the directory entry a written file comes from
EntryOf(n) == CHOOSE f \in {dir[i] : i \in 1..Len(dir)} : f.name = n

\* width, height and pixels of an entry after orientation normalization
Normalized(f) ==
    [size   |-> IF f.orient \in {5, 6, 7, 8} THEN <<f.size[2], f.size[1]>> ELSE f.size,
     pixels |-> <<"pixels", f.name, f.orient>>]

Abs(x) == IF x < 0 THEN 0 - x ELSE x

\* a/b < c/d for naturals a, c and positive b, d, without forming a * d
RECURSIVE RatLess(_, _, _, _)
RatLess(a, b, c, d) ==
    IF a \div b # c \div d THEN a \div b < c \div d
    ELSE IF c % d = 0 THEN FALSE
    ELSE IF a % b = 0 THEN TRUE
    ELSE RatLess(d, c % d, b, a % b)

\* |w/h - tw/th| of the real numbers is less for target s than for target t
Closer(w, h, s, t) ==
    RatLess(Abs(w * s[2] - s[1] * h), h * s[2], Abs(w * t[2] - t[1] * h), h * t[2])

LineDone == <<"done">>
DoneLines == {i \in 1..Len(log) : log[i] = LineDone}

(***************************************************************************)
(* C1.  Every written file of a supported extension has one of the 8       *)
(* allow-listed sizes, on the copy path and on the padding path.           *)
(***************************************************************************)
C1_OutputSizeAllowed ==
    \A n \in Written : n[2] \in ImageSuffixes /\ out[n].size \in AllowList

\* a run that wrote one file on each path
C1_Witness ==
    /\ pc = "done"
    /\ \E n \in Written : out[n].padded /\ EntryOf(n).size \notin AllowList
    /\ \E n \in Written : ~out[n].padded

(***************************************************************************)
(* C2.  The target chosen for an image that is not allow-listed minimizes  *)
(* |w/h - tw/th| over the 8 members, and among the members at that minimum *)
(* it is the one listed first.                                             *)
(***************************************************************************)
C2_NearestAndEarliest ==
    pc = "fit" =>
        LET w == img.size[1]
            h == img.size[2]
            k == CHOOSE i \in 1..Len(VALID_SIZES) : VALID_SIZES[i] = target
        IN /\ target \in AllowList
           /\ \A i \in 1..Len(VALID_SIZES) : ~Closer(w, h, VALID_SIZES[i], target)
           /\ \A i \in 1..(k - 1) : Closer(w, h, target, VALID_SIZES[i])

(***************************************************************************)
(* C3.  As claimed: a 4000x2000 image is written at 2868x1320, shrunk to   *)
(* 2640x1320 and pasted with 114 pixels left and right of it and none      *)
(* above or below.                                                         *)
(***************************************************************************)
C3_Scenario4000x2000 ==
    \A n \in Written :
        Normalized(EntryOf(n)).size = <<4000, 2000>> =>
            /\ out[n].size = <<2868, 1320>>
            /\ out[n].inner = <<2640, 1320>>
            /\ out[n].paste = <<114, 0>>
            /\ out[n].size[1] - out[n].paste[1] - out[n].inner[1] = 114
            /\ out[n].size[2] - out[n].paste[2] - out[n].inner[2] = 0

(***************************************************************************)
(* C3, amended.  A 4000x2000 image is written at 2796x1290, the nearest    *)
(* target (2796/1290 is 0.167 from 2.0, 2868/1320 is 0.173 from it); it is *)
(* shrunk to 2580x1290 and pasted with 108 pixels left and right of it and *)
(* none above or below.                                                    *)
(***************************************************************************)
C3_Scenario4000x2000Nearest ==
    \A n \in Written :
        Normalized(EntryOf(n)).size = <<4000, 2000>> =>
            /\ out[n].size = <<2796, 1290>>
            /\ out[n].inner = <<2580, 1290>>
            /\ out[n].paste = <<108, 0>>
            /\ out[n].size[1] - out[n].paste[1] - out[n].inner[1] = 108
            /\ out[n].size[2] - out[n].paste[2] - out[n].inner[2] = 0

C3_Witness ==
    \E n \in Written : Normalized(EntryOf(n)).size = <<4000, 2000>> /\ out[n].padded

(***************************************************************************)
(* C4.  As claimed: every written file is in RGB mode, whatever the mode   *)
(* of the input, on both paths.                                            *)
(***************************************************************************)
C4_AllOutputsRGB == \A n \in Written : out[n].mode = "RGB"

(***************************************************************************)
(* C4, amended.  A file written on the padding path is in RGB mode         *)
(* whatever the mode of the input; a file written on the copy path has the *)
(* mode of the input.                                                      *)
(***************************************************************************)
C4_PaddedRGBCopyKeepsMode ==
    \A n \in Written :
        IF out[n].padded THEN out[n].mode = "RGB"
        ELSE out[n].mode = EntryOf(n).mode

\* a padded file from an input that is not RGB, and a copied file that is not RGB
C4_Witness ==
    /\ \E n \in Written : out[n].padded /\ EntryOf(n).mode # "RGB"
    /\ \E n \in Written : ~out[n].padded /\ EntryOf(n).mode # "RGB"

(***************************************************************************)
(* C5.  An image whose normalized size is allow-listed is written under    *)
(* its name without shrink or padding: the written size is the input size  *)
(* and the written pixels are the normalized input pixels.                 *)
(***************************************************************************)
C5_CopyUnchanged ==
    \A n \in Written :
        Normalized(EntryOf(n)).size \in AllowList =>
            /\ ~out[n].padded
            /\ out[n].size = Normalized(EntryOf(n)).size
            /\ out[n].pixels = Normalized(EntryOf(n)).pixels

(***************************************************************************)
(* C6.  For every source size and every allow-listed target the shrunk     *)
(* size exceeds neither the target nor the source, and a source that fits  *)
(* the target keeps its size.                                              *)
(***************************************************************************)
C6_ShrinkNeverEnlarges ==
    \A n \in Written :
        LET src == Normalized(EntryOf(n)).size
            in  == out[n].inner
            tgt == out[n].size
        IN out[n].padded =>
            /\ in[1] <= tgt[1] /\ in[2] <= tgt[2]
            /\ in[1] <= src[1] /\ in[2] <= src[2]
            /\ (src[1] <= tgt[1] /\ src[2] <= tgt[2] => in = src)

\* a source larger than the target in both dimensions was shrunk
C6_Witness ==
    \E n \in Written :
        /\ out[n].padded
        /\ EntryOf(n).size[1] > out[n].size[1]
        /\ EntryOf(n).size[2] > out[n].size[2]
        /\ out[n].inner # EntryOf(n).size

(***************************************************************************)
(* C7.  The paste offsets are the floors of half the free width and half   *)
(* the free height; they are not negative, the pasted image lies inside    *)
(* the canvas, and the margins before and after it differ by at most 1.    *)
(***************************************************************************)
C7_PasteCentered ==
    \A n \in Written :
        LET tw == out[n].size[1]
            th == out[n].size[2]
            sw == out[n].inner[1]
            sh == out[n].inner[2]
            px == out[n].paste[1]
            py == out[n].paste[2]
        IN out[n].padded =>
            /\ 2 * px <= tw - sw /\ tw - sw < 2 * px + 2
            /\ 2 * py <= th - sh /\ th - sh < 2 * py + 2
            /\ px >= 0 /\ py >= 0
            /\ px + sw <= tw /\ py + sh <= th
            /\ Abs((tw - sw - px) - px) <= 1
            /\ Abs((th - sh - py) - py) <= 1

\* an odd free width: the margins differ
C7_Witness ==
    \E n \in Written :
        /\ out[n].padded
        /\ (out[n].size[1] - out[n].inner[1]) % 2 = 1
        /\ out[n].paste[1] > 0
        /\ out[n].inner # EntryOf(n).size

(***************************************************************************)
(* C8.  As claimed: an entry that is no readable image is skipped, so no   *)
(* run is aborted at such an entry.                                        *)
(***************************************************************************)
C8_NonImagesNeverAbort ==
    ~(pc = "crashed" /\ outdir /\ Current.kind # "image")

(***************************************************************************)
(* C8, amended.  An entry whose extension is not .png, .jpg or .jpeg in    *)
(* any case is skipped, image or not: it is never opened, no file is       *)
(* written for it and the run is not aborted at it; the entries with such  *)
(* an extension are all written when the run completes.  (An entry with    *)
(* such an extension that is no readable image is opened, not skipped.)    *)
(***************************************************************************)
C8_UnsupportedSkipped ==
    /\ \A i \in 1..Len(dir) :
          dir[i].name[2] \notin ImageSuffixes =>
              /\ i \notin opened
              /\ dir[i].name \notin Written
              /\ ~(pc = "crashed" /\ outdir /\ idx + 1 = i)
    /\ \A i \in opened : dir[i].name[2] \in ImageSuffixes
    /\ pc = "done" =>
          \A i \in 1..Len(dir) : dir[i].name[2] \in ImageSuffixes => dir[i].name \in Written

\* a completed run over a text file, an image of another extension and images
C8_Witness ==
    /\ pc = "done"
    /\ \E i \in 1..Len(dir) : dir[i].kind = "other" /\ dir[i].name[2] \notin ImageSuffixes
    /\ \E i \in 1..Len(dir) : dir[i].kind = "image" /\ dir[i].name[2] \notin ImageSuffixes
    /\ \E i \in 1..Len(dir) : dir[i].name[2] = ".PNG" /\ dir[i].name \in Written

(***************************************************************************)
(* C9.  An error while loading or writing a file halts the run at that     *)
(* file: no later entry is opened or written, no completion line is        *)
(* printed, the files written for the earlier entries stay, and nothing    *)
(* happens afterwards.                                                     *)
(***************************************************************************)
C9_HaltedAtError ==
    /\ \A i \in opened : dir[i].kind # "image" => pc = "crashed" /\ idx = i - 1
    /\ pc = "crashed" /\ outdir =>
          /\ idx + 1 \in opened
          /\ \A j \in (idx + 2)..Len(dir) : j \notin opened /\ dir[j].name \notin Written
          /\ DoneLines = {}
          /\ \A j \in 1..idx : dir[j].name[2] \in ImageSuffixes => dir[j].name \in Written

C9_HaltsOnFirstError == [](C9_HaltedAtError) /\ [][pc # "crashed"]_vars

\* a load error on the last of three entries, after a file was written
C9_Witness ==
    /\ pc = "crashed"
    /\ idx = 2
    /\ Len(dir) = 3
    /\ Written # {}
    /\ 3 \in opened
    /\ dir[3].kind = "other"

(***************************************************************************)
(* C10.  A run that completes has written exactly the entries with a       *)
(* supported extension, each under its name, and printed the completion    *)
(* line once, as the last line; over an empty directory the output         *)
(* directory exists, nothing is written and the line is printed.           *)
(***************************************************************************)
C10_CompleteRun ==
    /\ DoneLines # {} => pc = "done"
    /\ pc = "done" =>
          /\ outdir
          /\ Written = {dir[i].name : i \in {j \in 1..Len(dir) : dir[j].name[2] \in ImageSuffixes}}
          /\ DoneLines = {Len(log)}
          /\ dir = <<>> => out = <<>> /\ log = <<LineDone>>

\* a completed run over three entries, one of them skipped
C10_Witness ==
    /\ pc = "done"
    /\ Len(dir) = 3
    /\ Cardinality(Written) = 2

====
